---- MODULE Spec2Model ----
(***************************************************************************)
(* Model of the gilrs event model (src/gilrs/src/ev/mod.rs): the Button   *)
(* and Axis enums with their classification and pairing functions, Event *)
(* with drop/is_dropped, and the device identity manager described in the *)
(* design document (its code is not part of this source slice).          *)
(***************************************************************************)
EXTENDS Integers, Sequences, FiniteSets, TLC

\* Option<T>: None is the empty sequence, Some(x) is <<x>>.
None == <<>>
Some(x) == <<x>>

\* ------------------------------------------------------------------------
\* Button (ev/mod.rs 125-153)
Buttons == {"South", "East", "North", "West", "C", "Z",
            "LeftTrigger", "LeftTrigger2", "RightTrigger", "RightTrigger2",
            "Select", "Start", "Mode", "LeftThumb", "RightThumb",
            "DPadUp", "DPadDown", "DPadLeft", "DPadRight", "Unknown"}

\* #[default] Unknown
ButtonDefault_bug == "South"

ButtonDefault == "Unknown"

is_action(b) == b \in {"South", "East", "North", "West", "C", "Z"}

is_trigger(b) == b \in {"LeftTrigger", "LeftTrigger2", "RightTrigger", "RightTrigger2"}

is_menu_bug(b) == b \in {"Select", "Start", "Mode", "LeftThumb"}

is_menu(b) == b \in {"Select", "Start", "Mode"}

Button_is_stick(b) == b \in {"LeftThumb", "RightThumb"}

is_dpad(b) == b \in {"DPadUp", "DPadDown", "DPadLeft", "DPadRight"}

\* Code(gilrs_core::EvCode): the backend's native event code, named after
\* the native_ev_codes constant it holds.
Code(nec) == [nec |-> nec]

to_nec_bug(b) ==
  LET raw == CASE b = "South"         -> Some("BTN_SOUTH")
               [] b = "East"          -> Some("BTN_EAST")
               [] b = "North"         -> Some("BTN_NORTH")
               [] b = "West"          -> Some("BTN_WEST")
               [] b = "C"             -> Some("BTN_C")
               [] b = "Z"             -> Some("BTN_Z")
               [] b = "LeftTrigger"   -> Some("BTN_LT")
               [] b = "LeftTrigger2"  -> Some("BTN_LT2")
               [] b = "RightTrigger"  -> Some("BTN_RT")
               [] b = "RightTrigger2" -> Some("BTN_RT2")
               [] b = "Select"        -> Some("BTN_SELECT")
               [] b = "Start"         -> Some("BTN_START")
               [] b = "Mode"          -> Some("BTN_MODE")
               [] b = "LeftThumb"     -> Some("BTN_LTHUMB")
               [] b = "RightThumb"    -> Some("BTN_RTHUMB")
               [] b = "DPadUp"        -> Some("BTN_DPAD_UP")
               [] b = "DPadDown"      -> Some("BTN_DPAD_DOWN")
               [] b = "DPadLeft"      -> Some("BTN_DPAD_LEFT")
               [] OTHER               -> None
  IN IF raw = None THEN None ELSE Some(Code(raw[1]))

\* Button::to_nec: match to gilrs_core::native_ev_codes, then .map(Code)
to_nec(b) ==
  LET raw == CASE b = "South"         -> Some("BTN_SOUTH")
               [] b = "East"          -> Some("BTN_EAST")
               [] b = "North"         -> Some("BTN_NORTH")
               [] b = "West"          -> Some("BTN_WEST")
               [] b = "C"             -> Some("BTN_C")
               [] b = "Z"             -> Some("BTN_Z")
               [] b = "LeftTrigger"   -> Some("BTN_LT")
               [] b = "LeftTrigger2"  -> Some("BTN_LT2")
               [] b = "RightTrigger"  -> Some("BTN_RT")
               [] b = "RightTrigger2" -> Some("BTN_RT2")
               [] b = "Select"        -> Some("BTN_SELECT")
               [] b = "Start"         -> Some("BTN_START")
               [] b = "Mode"          -> Some("BTN_MODE")
               [] b = "LeftThumb"     -> Some("BTN_LTHUMB")
               [] b = "RightThumb"    -> Some("BTN_RTHUMB")
               [] b = "DPadUp"        -> Some("BTN_DPAD_UP")
               [] b = "DPadDown"      -> Some("BTN_DPAD_DOWN")
               [] b = "DPadLeft"      -> Some("BTN_DPAD_LEFT")
               [] b = "DPadRight"     -> Some("BTN_DPAD_RIGHT")
               [] OTHER               -> None
  IN IF raw = None THEN None ELSE Some(Code(raw[1]))

\* ------------------------------------------------------------------------
\* Axis (ev/mod.rs 219-229)
Axes == {"LeftStickX", "LeftStickY", "LeftZ", "RightStickX", "RightStickY",
         "RightZ", "DPadX", "DPadY", "Unknown"}

Axis_is_stick_bug(a) == a \in {"LeftStickX", "LeftStickY", "RightStickX", "RightStickY", "DPadX"}

Axis_is_stick(a) == a \in {"LeftStickX", "LeftStickY", "RightStickX", "RightStickY"}

second_axis_bug(a) ==
  CASE a = "LeftStickX"  -> Some("LeftStickY")
    [] a = "LeftStickY"  -> Some("LeftStickX")
    [] a = "RightStickX" -> Some("RightStickY")
    [] a = "RightStickY" -> Some("LeftStickX")
    [] a = "DPadX"       -> Some("DPadY")
    [] a = "DPadY"       -> Some("DPadX")
    [] OTHER             -> None

second_axis(a) ==
  CASE a = "LeftStickX"  -> Some("LeftStickY")
    [] a = "LeftStickY"  -> Some("LeftStickX")
    [] a = "RightStickX" -> Some("RightStickY")
    [] a = "RightStickY" -> Some("RightStickX")
    [] a = "DPadX"       -> Some("DPadY")
    [] a = "DPadY"       -> Some("DPadX")
    [] OTHER             -> None

\* ------------------------------------------------------------------------
\* EventType (ev/mod.rs 97-117). Every variant is a record with the same
\* fields; fields a variant does not carry hold "-".
MaxId == 1
MaxTime == 1
MaxDrops == 2

GamepadIds == 0..MaxId
Times == 0..MaxTime
\* f32 payloads; drop/is_dropped never inspect them.
Values == {"0.0", "1.0"}
Codes == {Code("c0"), Code("c1")}

ET(tag, b, a, v, c) == [tag |-> tag, btn |-> b, axis |-> a, val |-> v, code |-> c]

Dropped == ET("Dropped", "-", "-", "-", "-")

EventTypes ==
     {ET(t, b, "-", "-", c) : t \in {"ButtonPressed", "ButtonRepeated", "ButtonReleased"},
                              b \in Buttons, c \in Codes}
  \cup {ET("ButtonChanged", b, "-", v, c) : b \in Buttons, v \in Values, c \in Codes}
  \cup {ET("AxisChanged", "-", a, v, c) : a \in Axes, v \in Values, c \in Codes}
  \cup {ET(t, "-", "-", "-", "-") : t \in {"Connected", "Disconnected", "Dropped",
                                           "ForceFeedbackEffectCompleted"}}

\* Event::new_with_time
new_with_time(id, e, t) == [id |-> id, event |-> e, time |-> t]

Events == {new_with_time(i, e, t) : i \in GamepadIds, e \in EventTypes, t \in Times}

\* Event::drop with the timestamp reset, as if rebuilt with Event::new
drop_now_bug(e) == [e EXCEPT !.event = Dropped, !.time = 0]

\* Event::drop that advances the timestamp
drop_stamp_bug(e) == [e EXCEPT !.event = Dropped, !.time = @ + 1]

\* Event::drop: self.event = EventType::Dropped; self
drop(e) == [e EXCEPT !.event = Dropped]

is_dropped_bug(e) == e.event.tag \in {"Dropped", "Disconnected"}

\* Event::is_dropped: self.event == EventType::Dropped
is_dropped(e) == e.event = Dropped

\* ------------------------------------------------------------------------
\* Device identity manager (design document 4.2, 7). Each GamepadId slot
\* holds a record {st, sig}; st follows Absent -> Connected ->
\* (Disconnected -> Connected)*. The consumer-visible event stream is log.
MaxIds == 2
MaxLog == 5

IdSlots == 0..(MaxIds - 1)
Sigs == {"S1", "S2"}
NoRecord == [st |-> "Absent", sig |-> "-"]

\* ------------------------------------------------------------------------
\* Specification over the enums: Init picks a Button and an Axis, each
\* action applies one of the functions of impl Button / impl Axis.
VARIABLES btn, ax, done, nec, cls, sec, sec2, stk, dflt,
          orig, ev, drops, isd,
          recs, nextId, log

enumVars == <<btn, ax, done, nec, cls, sec, sec2, stk, dflt>>
eventVars == <<orig, ev, drops, isd>>
idVars == <<recs, nextId, log>>
vars == <<btn, ax, done, nec, cls, sec, sec2, stk, dflt, orig, ev, drops, isd, recs, nextId, log>>

EnumIdle ==
  /\ btn = "Unknown" /\ ax = "Unknown" /\ done = {} /\ nec = None /\ cls = <<>>
  /\ sec = None /\ sec2 = None /\ stk = <<>> /\ dflt = "unset"

EventIdle ==
  /\ orig = new_with_time(0, Dropped, 0) /\ ev = orig /\ drops = 0 /\ isd = TRUE

IdIdle ==
  /\ recs = [i \in IdSlots |-> NoRecord] /\ nextId = 0 /\ log = <<>>

EnumInit ==
  /\ btn \in Buttons
  /\ ax \in Axes
  /\ done = {}
  /\ nec = None
  /\ cls = <<>>
  /\ sec = None
  /\ sec2 = None
  /\ stk = <<>>
  /\ dflt = "unset"
  /\ EventIdle
  /\ IdIdle

ToNec ==
  /\ "to_nec" \notin done
  /\ done' = done \cup {"to_nec"}
  /\ nec' = to_nec(btn)
  /\ UNCHANGED <<btn, ax, cls, sec, sec2, stk, dflt>>
  /\ UNCHANGED <<eventVars, idVars>>

Classify ==
  /\ "classify" \notin done
  /\ done' = done \cup {"classify"}
  /\ cls' = <<is_action(btn), is_trigger(btn), is_menu(btn), Button_is_stick(btn), is_dpad(btn)>>
  /\ UNCHANGED <<btn, ax, nec, sec, sec2, stk, dflt>>
  /\ UNCHANGED <<eventVars, idVars>>

SecondAxis ==
  /\ "second_axis" \notin done
  /\ done' = done \cup {"second_axis"}
  /\ sec' = second_axis(ax)
  /\ sec2' = IF second_axis(ax) = None THEN None ELSE second_axis(second_axis(ax)[1])
  /\ stk' = <<Axis_is_stick(ax)>> \o
           (IF second_axis(ax) = None THEN <<>> ELSE <<Axis_is_stick(second_axis(ax)[1])>>)
  /\ UNCHANGED <<btn, ax, nec, cls, dflt>>
  /\ UNCHANGED <<eventVars, idVars>>

DefaultButton ==
  /\ "default" \notin done
  /\ done' = done \cup {"default"}
  /\ dflt' = ButtonDefault
  /\ UNCHANGED <<btn, ax, nec, cls, sec, sec2, stk>>
  /\ UNCHANGED <<eventVars, idVars>>

EnumNext == ToNec \/ Classify \/ SecondAxis \/ DefaultButton

EnumSpec == EnumInit /\ [][EnumNext]_vars


\* ------------------------------------------------------------------------
\* Specification over Event: Init picks an Event, Drop applies Event::drop
\* and records Event::is_dropped of the result.
EventInit ==
  /\ orig \in Events
  /\ ev = orig
  /\ drops = 0
  /\ isd = is_dropped(orig)
  /\ EnumIdle
  /\ IdIdle

Drop ==
  /\ drops < MaxDrops
  /\ ev' = drop(ev)
  /\ isd' = is_dropped(drop(ev))
  /\ drops' = drops + 1
  /\ UNCHANGED orig
  /\ UNCHANGED <<enumVars, idVars>>

EventNext == Drop

EventSpec == EventInit /\ [][EventNext]_vars

\* ------------------------------------------------------------------------
\* Identity manager actions.
IdInit ==
  /\ IdIdle
  /\ EnumIdle
  /\ EventIdle

\* Device appeared with signature s: reuse the id of a Disconnected record
\* with the same signature, else allocate the next id (failing, with no
\* state change, when the id table is full). Emits Connected.
Appear_bug(s) ==
  /\ Len(log) < MaxLog
  /\ nextId < MaxIds
  /\ recs' = [recs EXCEPT ![nextId] = [st |-> "Connected", sig |-> s]]
  /\ nextId' = nextId + 1
  /\ log' = Append(log, [id |-> nextId, ty |-> "Connected", sig |-> s])

Appear(s) ==
  /\ Len(log) < MaxLog
  /\ LET matches == {i \in IdSlots : recs[i].st = "Disconnected" /\ recs[i].sig = s}
     IN IF matches # {}
        THEN \E i \in matches :
               /\ recs' = [recs EXCEPT ![i].st = "Connected"]
               /\ log' = Append(log, [id |-> i, ty |-> "Connected", sig |-> s])
               /\ UNCHANGED nextId
        ELSE /\ nextId < MaxIds
             /\ recs' = [recs EXCEPT ![nextId] = [st |-> "Connected", sig |-> s]]
             /\ nextId' = nextId + 1
             /\ log' = Append(log, [id |-> nextId, ty |-> "Connected", sig |-> s])

\* Device vanished: the record is kept, marked Disconnected. Emits Disconnected.
Vanish(i) ==
  /\ Len(log) < MaxLog
  /\ recs[i].st = "Connected"
  /\ recs' = [recs EXCEPT ![i].st = "Disconnected"]
  /\ log' = Append(log, [id |-> i, ty |-> "Disconnected", sig |-> recs[i].sig])
  /\ UNCHANGED nextId

RawSample_bug(i) ==
  /\ Len(log) < MaxLog
  /\ recs[i].st # "Absent"
  /\ log' = Append(log, [id |-> i, ty |-> "AxisChanged", sig |-> recs[i].sig])
  /\ UNCHANGED <<recs, nextId>>

\* Raw sample from the backend for a known id: delivered while Connected,
\* turned into Dropped while Disconnected.
RawSample(i) ==
  /\ Len(log) < MaxLog
  /\ recs[i].st # "Absent"
  /\ log' = Append(log, [id |-> i,
                         ty |-> IF recs[i].st = "Connected" THEN "AxisChanged" ELSE "Dropped",
                         sig |-> recs[i].sig])
  /\ UNCHANGED <<recs, nextId>>

IdNext ==
  \/ \E s \in Sigs : Appear(s) /\ UNCHANGED <<enumVars, eventVars>>
  \/ \E i \in IdSlots : Vanish(i) /\ UNCHANGED <<enumVars, eventVars>>
  \/ \E i \in IdSlots : RawSample(i) /\ UNCHANGED <<enumVars, eventVars>>

IdSpec == IdInit /\ [][IdNext]_vars

\* ------------------------------------------------------------------------
\* Properties.

PairedAxes == {"LeftStickX", "LeftStickY", "RightStickX", "RightStickY", "DPadX", "DPadY"}

\* C1: to_nec returns Some(Code) for every Button except Unknown, and None
\* for Unknown.
C1_ToNecSomeExceptUnknown ==
  "to_nec" \in done =>
    /\ (btn # "Unknown" => Len(nec) = 1 /\ nec = Some(Code(nec[1].nec)))
    /\ (btn = "Unknown" => nec = None)

C1_Witness == "to_nec" \in done /\ btn = "DPadRight"

\* C2: second_axis is an involution without fixed points on the six paired
\* stick/dpad axes, and None on LeftZ, RightZ and Unknown.
C2_SecondAxisInvolution ==
  "second_axis" \in done =>
    /\ (ax \in PairedAxes => sec # None /\ sec[1] # ax /\ sec2 = Some(ax))
    /\ (ax \notin PairedAxes => sec = None)

C2_Witness == "second_axis" \in done /\ ax = "RightStickY"

\* C3: is_action, is_trigger, is_menu, is_stick and is_dpad partition the
\* non-Unknown buttons; Unknown satisfies none of them.
C3_ClassificationPartition ==
  "classify" \in done =>
    /\ (btn # "Unknown" => Cardinality({k \in 1..5 : cls[k]}) = 1)
    /\ (btn = "Unknown" => \A k \in 1..5 : ~cls[k])

C3_Witness == "classify" \in done /\ btn = "LeftThumb"

\* C4: drop() yields an event whose payload is Dropped and which is_dropped;
\* is_dropped holds exactly when the payload is Dropped.
C4_DropIsDropped ==
  /\ (drops >= 1 => ev.event.tag = "Dropped" /\ isd)
  /\ (isd <=> ev.event.tag = "Dropped")

C4_Witness == drops >= 1 /\ orig.event.tag = "Disconnected"

\* C5: drop() replaces only the payload; id and time are kept.
C5_DropKeepsIdAndTime ==
  drops >= 1 => ev.id = orig.id /\ ev.time = orig.time

C5_Witness == drops >= 1 /\ orig.time = MaxTime /\ orig.id = MaxId

\* C9: drop is idempotent and never resurrects a payload:
\* e.drop().drop() = e.drop(), and dropping a dropped event changes nothing.
C9_DropIdempotent ==
  /\ drops >= 1 => ev = drop(orig)
  /\ (drops = 0 /\ is_dropped(orig)) => drop(orig) = orig

C9_Witness == drops = 2 /\ orig.event.tag = "AxisChanged"

\* C8: Button::default() is Unknown.
C8_DefaultIsUnknown == "default" \in done => dflt = "Unknown"

C8_Witness == "default" \in done

\* The physical element of the gamepad an axis belongs to.
AxisElement(a) ==
  CASE a \in {"LeftStickX", "LeftStickY"}   -> "LeftStick"
    [] a \in {"RightStickX", "RightStickY"} -> "RightStick"
    [] a \in {"DPadX", "DPadY"}             -> "DPad"
    [] OTHER                               -> a

\* C10: second_axis keeps an axis within its physical element (a stick axis
\* pairs with the other axis of the same stick, DPadX/DPadY only with each
\* other), is_stick of the pair agrees, and is_stick holds exactly for the
\* four stick axes.
C10_SecondAxisSameGroup ==
  "second_axis" \in done =>
    /\ (sec # None => stk[1] = stk[2] /\ AxisElement(sec[1]) = AxisElement(ax))
    /\ (stk[1] <=> ax \in {"LeftStickX", "LeftStickY", "RightStickX", "RightStickY"})

C10_Witness == "second_axis" \in done /\ ax = "DPadY"

\* C6 (helper): every Connected event for an id carries the signature the
\* id was first assigned to.
IdSignatureStable ==
  \A i, j \in DOMAIN log :
    (log[i].ty = "Connected" /\ log[j].ty = "Connected" /\ log[i].id = log[j].id)
      => log[i].sig = log[j].sig

\* C6 (helper): a device connecting while a Disconnected record with its
\* signature exists gets the id of such a record.
ReconnectReusesId ==
  (Len(log') = Len(log) + 1 /\ log'[Len(log')].ty = "Connected"
     /\ \E i \in IdSlots : recs[i].st = "Disconnected" /\ recs[i].sig = log'[Len(log')].sig)
    => /\ recs[log'[Len(log')].id].st = "Disconnected"
       /\ recs[log'[Len(log')].id].sig = log'[Len(log')].sig

\* C6: reconnection identity. A reconnecting device gets back its earlier
\* id, a device with another signature gets a different id, and no id is
\* ever given to two signatures.
C6_ReconnectionIdentity == []IdSignatureStable /\ [][ReconnectReusesId]_vars

\* A(S1) connects and disconnects, B(S2) connects, then S1 reconnects.
C6_Witness ==
  \E i, j, k \in DOMAIN log :
    /\ i < j /\ j < k
    /\ log[i].ty = "Disconnected" /\ log[j].ty = "Connected" /\ log[k].ty = "Connected"
    /\ log[j].sig # log[i].sig /\ log[k].sig = log[i].sig
    /\ log[k].id = log[i].id /\ log[j].id # log[i].id

\* C7: after a Disconnected event for an id, only Dropped events (raw
\* samples) for that id reach the consumer until its next Connected.
C7_NoEventsAfterDisconnect ==
  \A i, j \in DOMAIN log :
    (/\ i < j
     /\ log[i].ty = "Disconnected"
     /\ log[j].id = log[i].id
     /\ \A k \in (i + 1)..(j - 1) : ~(log[k].id = log[i].id /\ log[k].ty = "Connected"))
      => log[j].ty \in {"Dropped", "Connected"}

C7_Witness ==
  \E i, j \in DOMAIN log :
    i < j /\ log[i].ty = "Disconnected" /\ log[j].id = log[i].id /\ log[j].ty = "Dropped"

====
